---- MODULE Spec2Model ----
(***************************************************************************)
(* Model of src/io/xyz.rs: the XYZ binary point-cloud codec.               *)
(*   - Format tag and its one-byte encoding                                *)
(*   - XyzRecord::write / XyzRecord::read                                  *)
(*   - XyzInternalWriter (new, write_record, finish, Drop)                 *)
(*   - XyzInternalReader (new, next)                                       *)
(* Bytes are modelled one by one.  A u64 (and the bit pattern of an f64)   *)
(* is a sequence of eight base-256 digits, least significant digit first, *)
(* so that the all-ones placeholder 2^64-1 keeps its full width.          *)
(***************************************************************************)
EXTENDS Integers, Sequences, FiniteSets, TLC

(***************************************************************************)
(* Bounds of the model.                                                    *)
(***************************************************************************)
\* write_record calls made on the writer
MaxWrites == 2
\* sink operations (write_all / seek) that fail during one run
MaxFaults == 1
\* next() calls made on one reader beyond the number of write_record calls
ExtraNexts == 2

(***************************************************************************)
(* Bytes, u64 and f64 values.                                              *)
(***************************************************************************)
\* the width of a u64 / f64 in bytes: the [0; 8] buffers of read, new
U64_BYTES == 8

U64Zero == [i \in 1..U64_BYTES |-> 0]

\* u64::MAX: every digit 0xFF
U64_MAX == [i \in 1..U64_BYTES |-> 255]

\* a small natural number as a u64
U64OfNat(n) == [i \in 1..U64_BYTES |->
                  IF i = 1 THEN n % 256
                  ELSE IF i = 2 THEN (n \div 256) % 256
                  ELSE IF i = 3 THEN (n \div 65536) % 256
                  ELSE 0]

\* v + 1 on 64 bits (the carry ripples up; 2^64-1 wraps to 0)
U64Inc(v) ==
    LET low == {i \in 1..U64_BYTES : v[i] # 255}
    IN  IF low = {} THEN U64Zero
        ELSE LET k == CHOOSE i \in low : \A j \in low : i <= j
             IN  [i \in 1..U64_BYTES |->
                    IF i < k THEN 0 ELSE IF i = k THEN v[i] + 1 ELSE v[i]]

\* a >= b on 64 bits: decided by the most significant digit that differs
U64Ge(a, b) ==
    LET diff == {i \in 1..U64_BYTES : a[i] # b[i]}
    IN  IF diff = {} THEN TRUE
        ELSE LET m == CHOOSE i \in diff : \A j \in diff : j <= i
             IN  a[m] > b[m]

Reverse(s) == [i \in 1..Len(s) |-> s[Len(s) + 1 - i]]

\* u64::to_ne_bytes / f64::to_ne_bytes: the digits in the byte order of the build
ToNeBytes(v, ord) == IF ord = "little" THEN v ELSE Reverse(v)

\* mutant: the bytes are always taken as little-endian (from_le_bytes)
FromLeBytes(b, ord) == b

\* u64::from_ne_bytes / f64::from_ne_bytes
FromNeBytes(b, ord) == IF ord = "little" THEN b ELSE Reverse(b)

(***************************************************************************)
(* Format tag.                                                             *)
(***************************************************************************)
XYZ_MAGIC == <<88, 89, 90, 66>>

Formats == {"Xyz", "XyzMeta"}

\* impl From<Format> for u8
FormatToU8(f) == IF f = "Xyz" THEN 1 ELSE 2

\* mutant: an unknown value falls back to the bare format
FormatTryFromDefault(b) == IF b = 2 THEN "XyzMeta" ELSE "Xyz"

\* impl TryFrom<u8> for Format: "Err" for an unknown value
FormatTryFrom(b) == IF b = 1 THEN "Xyz" ELSE IF b = 2 THEN "XyzMeta" ELSE "Err"

(***************************************************************************)
(* Records.  Option<XyzRecordMeta> is a sequence of length 0 or 1.         *)
(***************************************************************************)
None == <<>>
Some(m) == <<m>>

\* bit patterns of 1.0, 2.0 and 3.0
F1 == <<0, 0, 0, 0, 0, 0, 240, 63>>
F2 == <<0, 0, 0, 0, 0, 0, 0, 64>>
F3 == <<0, 0, 0, 0, 0, 0, 8, 64>>

Meta(c, n, r) == [classification |-> c, number_of_returns |-> n, return_number |-> r]

XyzRecord(x, y, z, meta) == [x |-> x, y |-> y, z |-> z, meta |-> meta]

\* the records offered to write_record
Records == { XyzRecord(F1, F2, F3, Some(Meta(4, 5, 6))),
             XyzRecord(F3, F1, F2, Some(Meta(2, 1, 1))),
             XyzRecord(F2, F2, F1, None),
             XyzRecord(F1, F3, F2, None) }

(***************************************************************************)
(* The sink: a seekable byte vector with a position (Cursor<Vec<u8>>).    *)
(* A write beyond the end first fills the gap with zero bytes.            *)
(***************************************************************************)
Concat(chunks) ==
    LET F[n \in 0..Len(chunks)] == IF n = 0 THEN <<>> ELSE F[n - 1] \o chunks[n]
    IN  F[Len(chunks)]

CursorWrite(w, bytes) ==
    LET n == Len(bytes)
        p == w.pos
        newLen == IF p + n > Len(w.data) THEN p + n ELSE Len(w.data)
    IN  IF n = 0 THEN w
        ELSE [data |-> [i \in 1..newLen |->
                          IF i > p /\ i <= p + n THEN bytes[i - p]
                          ELSE IF i <= Len(w.data) THEN w.data[i] ELSE 0],
              pos  |-> p + n]

\* a run of write_all calls, one per chunk; call number failAt fails (0: none
\* fails) and the calls before it have taken effect
WriteAllSeq(w, chunks, failAt) ==
    IF failAt = 0 \/ failAt > Len(chunks)
    THEN [w |-> CursorWrite(w, Concat(chunks)), ok |-> TRUE]
    ELSE [w |-> CursorWrite(w, Concat(SubSeq(chunks, 1, failAt - 1))), ok |-> FALSE]

(***************************************************************************)
(* XyzRecord::write                                                        *)
(***************************************************************************)
MetaBytes(m) == <<m.classification, m.number_of_returns, m.return_number>>

\* the write_all calls XyzRecord::write makes before it can return
RecordChunks(rec, fmt, ord) ==
    <<ToNeBytes(rec.x, ord), ToNeBytes(rec.y, ord), ToNeBytes(rec.z, ord)>>
    \o (IF fmt = "XyzMeta" /\ rec.meta # None
        THEN <<MetaBytes(rec.meta[1])>> ELSE <<>>)

\* mutant: a record without metadata is accepted under the with-metadata tag
RecordWriteLax(rec, w, fmt, ord, failAt) ==
    LET r == WriteAllSeq(w, RecordChunks(rec, fmt, ord), failAt)
    IN  IF ~r.ok THEN [w |-> r.w, res |-> "IoError"] ELSE [w |-> r.w, res |-> "Ok"]

RecordWrite(rec, w, fmt, ord, failAt) ==
    LET r == WriteAllSeq(w, RecordChunks(rec, fmt, ord), failAt)
    IN  IF ~r.ok THEN [w |-> r.w, res |-> "IoError"]
        ELSE IF fmt = "XyzMeta" /\ rec.meta = None
             THEN [w |-> r.w, res |-> "InvalidInput"]
             ELSE [w |-> r.w, res |-> "Ok"]

(***************************************************************************)
(* State.                                                                  *)
(***************************************************************************)
VARIABLES
    order,            \* byte order of the build: "little" or "big"
    \* XyzInternalWriter
    inner,            \* Option<W>: "Some" or "None"
    records_written,  \* u64
    format,           \* Format
    start,            \* Option<Instant>: TRUE when Some
    sink,             \* the W itself: [data, pos]
    wstate,           \* "live", "panicked" (unwinding) or "dropped"
    wres,             \* what the last writer call returned
    \* history of the writer's calls
    call,             \* the last call: op, record, fault and the state before it
    nCalls,           \* write_record calls made
    okRecords,        \* the records of the write_record calls that returned Ok
    hdrCalls,         \* the write_record calls (by number) that emitted header bytes
    finishCalled,     \* finish() has been called by the caller
    finishRes,        \* what the finish() call that took the sink returned
    finalizes,        \* times the seek-and-patch sequence was started
    patched,          \* the finalize sequence has written the count
    faults,           \* sink operations that have failed
    \* XyzInternalReader
    rstate,           \* "absent", "open", "failed" (new returned Err) or "panicked"
    src,              \* the R: [data, pos]
    r_format,         \* Format
    n_records,        \* u64
    records_read,     \* u64
    r_start,          \* Option<Instant>: TRUE when Some
    rres,             \* what the last reader call returned
    rlog,             \* what each next() call returned, oldest first
    tamper            \* how the reader's source was derived from the sink

wvars == <<inner, records_written, format, start, sink, wstate, wres,
           call, nCalls, okRecords, hdrCalls, finishCalled, finishRes, finalizes, patched, faults>>
rvars == <<rstate, src, r_format, n_records, records_read, r_start, rres, rlog, tamper>>
vars == <<order, wvars, rvars>>

NoCall == [op |-> "new", rec |-> None, fault |-> 0,
           pre |-> [sink |-> [data |-> <<>>, pos |-> 0],
                    records_written |-> U64Zero, inner |-> "Some"]]

\* XyzInternalWriter::new over an empty sink; no reader yet
Init ==
    /\ order \in {"little", "big"}
    /\ inner = "Some"
    /\ records_written = U64Zero
    /\ format \in Formats
    /\ start = FALSE
    /\ sink = [data |-> <<>>, pos |-> 0]
    /\ wstate = "live"
    /\ wres = "Ok"
    /\ call = NoCall
    /\ nCalls = 0
    /\ okRecords = <<>>
    /\ hdrCalls = {}
    /\ finishCalled = FALSE
    /\ finishRes = "none"
    /\ finalizes = 0
    /\ patched = FALSE
    /\ faults = 0
    /\ rstate = "absent"
    /\ src = [data |-> <<>>, pos |-> 0]
    /\ r_format = "Xyz"
    /\ n_records = U64Zero
    /\ records_read = U64Zero
    /\ r_start = FALSE
    /\ rres = "none"
    /\ rlog = <<>>
    /\ tamper = [kind |-> "none", at |-> 0, bytes |-> <<>>]

Pre == [sink |-> sink, records_written |-> records_written, inner |-> inner]

(***************************************************************************)
(* XyzInternalWriter::write_record                                         *)
(***************************************************************************)
\* the header is written when no record has been counted yet
NeedsHeader(rw) == rw = U64Zero

\* magic, format tag, placeholder count: one write_all each
HeaderChunks(fmt, ord) ==
    <<XYZ_MAGIC, <<FormatToU8(fmt)>>, ToNeBytes(U64_MAX, ord)>>

\* mutant: the count is incremented whether or not the call succeeded
CountAfterAlways(rw, res) == U64Inc(rw)

\* records_written after the call that returned res
CountAfter(rw, res) == IF res = "Ok" THEN U64Inc(rw) ELSE rw

write_record(rec, failAt) ==
    /\ wstate = "live"
    /\ rstate = "absent"
    /\ nCalls < MaxWrites
    /\ nCalls' = nCalls + 1
    /\ call' = [op |-> "write_record", rec |-> rec, fault |-> failAt, pre |-> Pre]
    /\ IF inner = "None"
       THEN /\ failAt = 0
            /\ wres' = "Other"
            /\ UNCHANGED <<sink, records_written, start, okRecords, hdrCalls, faults>>
       ELSE LET hdr == NeedsHeader(records_written)
                hchunks == IF hdr THEN HeaderChunks(format, order) ELSE <<>>
                nh == Len(hchunks)
                h == WriteAllSeq(sink, hchunks, IF failAt <= nh THEN failAt ELSE 0)
                r == RecordWrite(rec, h.w, format, order,
                                 IF failAt > nh THEN failAt - nh ELSE 0)
                res == IF h.ok THEN r.res ELSE "IoError"
            IN  /\ failAt <= nh + Len(RecordChunks(rec, format, order))
                /\ failAt # 0 => faults < MaxFaults
                /\ faults' = IF failAt # 0 THEN faults + 1 ELSE faults
                /\ start' = (start \/ hdr)
                /\ sink' = IF h.ok THEN r.w ELSE h.w
                /\ records_written' = CountAfter(records_written, res)
                /\ wres' = res
                /\ okRecords' = IF res = "Ok" THEN Append(okRecords, rec) ELSE okRecords
                /\ hdrCalls' = IF hdr /\ failAt # 1
                               THEN hdrCalls \cup {nCalls + 1} ELSE hdrCalls
    /\ UNCHANGED <<inner, format, wstate, finishCalled, finishRes, finalizes, patched>>
    /\ UNCHANGED <<order, rvars>>

(***************************************************************************)
(* XyzInternalWriter::finish and Drop                                      *)
(***************************************************************************)
\* mutant: the seek forgets the tag byte
CountOffsetNoTag == Len(XYZ_MAGIC)

\* SeekFrom::Start(XYZ_MAGIC.len() as u64 + 1)
CountOffset == Len(XYZ_MAGIC) + 1

\* `x as u32` is zero
AsU32IsZero(v) == \A i \in 1..4 : v[i] = 0

\* mutant: finish borrows the sink (as_mut) instead of taking it
TakeInnerKept(i) == i

\* self.inner.take()
TakeInner(i) == "None"

\* the body of finish() once it holds the sink: seek, write the count, log.
\* failAt = 1: the seek fails; failAt = 2: the write_all fails.  dbg: debug!
\* is enabled (the log level is a run-time setting) and evaluates its
\* arguments, which divide a Duration by records_written as u32: that panics
\* when the divisor is 0.
\* mutant: the seek is left out, the count is written where the sink stands
FinishBodyNoSeek(w, rw, st, dbg, ord, failAt) ==
    IF failAt # 0 THEN [w |-> w, res |-> "IoError"]
    ELSE [w |-> CursorWrite(w, ToNeBytes(rw, ord)),
          res |-> IF st /\ dbg /\ AsU32IsZero(rw) THEN "Panic" ELSE "Ok"]

FinishBody(w, rw, st, dbg, ord, failAt) ==
    IF failAt = 1 THEN [w |-> w, res |-> "IoError"]
    ELSE LET sought == [w EXCEPT !.pos = CountOffset]
         IN  IF failAt = 2 THEN [w |-> sought, res |-> "IoError"]
             ELSE LET done == CursorWrite(sought, ToNeBytes(rw, ord))
                  IN  IF st /\ dbg /\ AsU32IsZero(rw)
                      THEN [w |-> done, res |-> "Panic"]
                      ELSE [w |-> done, res |-> "Ok"]

finish(failAt, dbg) ==
    /\ wstate = "live"
    /\ rstate = "absent"
    /\ failAt \in 0..2
    /\ call' = [op |-> "finish", rec |-> None, fault |-> failAt, pre |-> Pre]
    /\ finishCalled' = TRUE
    /\ IF inner = "None"
       THEN /\ failAt = 0
            /\ wres' = "Other"
            /\ UNCHANGED <<inner, sink, wstate, finishRes, finalizes, patched, faults>>
       ELSE LET f == FinishBody(sink, records_written, start, dbg, order, failAt)
            IN  /\ failAt # 0 => faults < MaxFaults
                /\ faults' = IF failAt # 0 THEN faults + 1 ELSE faults
                /\ inner' = TakeInner(inner)
                /\ sink' = f.w
                /\ wres' = f.res
                /\ finishRes' = f.res
                /\ wstate' = IF f.res = "Panic" THEN "panicked" ELSE "live"
                /\ finalizes' = finalizes + 1
                /\ patched' = (failAt = 0)
    /\ UNCHANGED <<records_written, format, start, nCalls, okRecords, hdrCalls>>
    /\ UNCHANGED <<order, rvars>>

\* mutant: Drop releases the sink without finalizing it
DropFinishSkipped(w, rw, st, dbg, ord, failAt) == [w |-> w, res |-> "Ok"]

\* what Drop does with a writer that still holds its sink: self.finish()
DropFinish(w, rw, st, dbg, ord, failAt) == FinishBody(w, rw, st, dbg, ord, failAt)

\* mutant: the result of finish() is discarded (let _ = self.finish())
DropOutcomeSwallowed(res) == "Ok"

\* .expect("failed to finish writer in Drop"): an Err becomes a panic, and a
\* panic inside finish() passes through
DropOutcome(res) == IF res = "Ok" THEN "Ok" ELSE "Panic"

\* impl Drop: finish().expect(..) when the sink is still held
Drop(failAt, dbg) ==
    /\ wstate \in {"live", "panicked"}
    /\ rstate = "absent"
    /\ failAt \in 0..2
    /\ call' = [op |-> "drop", rec |-> None, fault |-> failAt, pre |-> Pre]
    /\ wstate' = "dropped"
    /\ IF inner = "None"
       THEN /\ failAt = 0
            /\ wres' = IF wstate = "panicked" THEN "Panic" ELSE "Ok"
            /\ UNCHANGED <<inner, sink, finalizes, patched, faults>>
       ELSE LET f == DropFinish(sink, records_written, start, dbg, order, failAt)
            IN  /\ failAt # 0 => faults < MaxFaults
                /\ faults' = IF failAt # 0 THEN faults + 1 ELSE faults
                /\ inner' = TakeInner(inner)
                /\ sink' = f.w
                /\ wres' = DropOutcome(f.res)
                /\ finalizes' = finalizes + 1
                /\ patched' = (failAt = 0)
    /\ UNCHANGED <<records_written, format, start, nCalls, okRecords, hdrCalls,
                   finishCalled, finishRes>>
    /\ UNCHANGED <<order, rvars>>

WriterNext ==
    \/ \E rec \in Records, failAt \in 0..7 : write_record(rec, failAt)
    \/ \E failAt \in 0..2, dbg \in BOOLEAN : finish(failAt, dbg)
    \/ \E failAt \in 0..2, dbg \in BOOLEAN : Drop(failAt, dbg)

(***************************************************************************)
(* The reader's source: a byte slice with a position.  read_exact either  *)
(* delivers n bytes or fails with UnexpectedEof; how far a failed          *)
(* read_exact has moved the position is unspecified: it stays (toEnd       *)
(* FALSE) or moves to the end of the data (toEnd TRUE).                    *)
(***************************************************************************)
ReadExact(r, n, toEnd) ==
    IF r.pos + n <= Len(r.data)
    THEN [ok |-> TRUE, bytes |-> SubSeq(r.data, r.pos + 1, r.pos + n),
          r |-> [r EXCEPT !.pos = r.pos + n]]
    ELSE [ok |-> FALSE, bytes |-> <<>>,
          r |-> [r EXCEPT !.pos = IF toEnd THEN Len(r.data) ELSE r.pos]]

(***************************************************************************)
(* XyzRecord::read                                                         *)
(***************************************************************************)
\* the [0; 3] buffer of the metadata block
META_BYTES == 3

ReadMeta(r, fmt, toEnd) ==
    IF fmt = "Xyz" THEN [ok |-> TRUE, meta |-> None, r |-> r]
    ELSE LET b == ReadExact(r, META_BYTES, toEnd)
         IN  IF b.ok
             THEN [ok |-> TRUE, r |-> b.r,
                   meta |-> Some(Meta(b.bytes[1], b.bytes[2], b.bytes[3]))]
             ELSE [ok |-> FALSE, meta |-> None, r |-> b.r]

RecordRead(r, fmt, ord, toEnd) ==
    LET bx == ReadExact(r, U64_BYTES, toEnd)
        by == ReadExact(bx.r, U64_BYTES, toEnd)
        bz == ReadExact(by.r, U64_BYTES, toEnd)
        bm == ReadMeta(bz.r, fmt, toEnd)
        err(at) == [res |-> "IoError", rec |-> None, r |-> at]
    IN  IF ~bx.ok THEN err(bx.r)
        ELSE IF ~by.ok THEN err(by.r)
        ELSE IF ~bz.ok THEN err(bz.r)
        ELSE IF ~bm.ok THEN err(bm.r)
        ELSE [res |-> "Ok", r |-> bm.r,
              rec |-> XyzRecord(FromNeBytes(bx.bytes, ord), FromNeBytes(by.bytes, ord),
                                FromNeBytes(bz.bytes, ord), bm.meta)]

(***************************************************************************)
(* The byte streams a reader is opened on: the bytes the writer left in    *)
(* the sink, or, for a sink that was written and finalized without any     *)
(* failure, those bytes cut short, followed by trailing data or with one   *)
(* header byte changed; or a stream no writer produced.                    *)
(***************************************************************************)
CleanSink == faults = 0 /\ patched /\ Len(okRecords) = nCalls

ForeignStreams == { <<88, 89, 90>>,
                    <<88, 89, 90, 67>>,
                    <<66, 90, 89, 88, 1, 0, 0, 0, 0, 0, 0, 0, 0>> }

Tampers(d) ==
    {[kind |-> "exact", at |-> 0, bytes |-> <<>>]}
    \cup (IF CleanSink
          THEN {[kind |-> "truncate", at |-> l, bytes |-> <<>>] : l \in 0..(Len(d) - 1)}
               \cup {[kind |-> "append", at |-> 0, bytes |-> b] :
                       b \in {<<7>>, SubSeq(d, 14, Len(d))} \ {<<>>}}
               \cup {[kind |-> "setbyte", at |-> i, bytes |-> <<v>>] :
                       i \in 1..5, v \in {0, 3}}
               \cup {[kind |-> "foreign", at |-> 0, bytes |-> b] : b \in ForeignStreams}
          ELSE {})

Tampered(d, t) ==
    CASE t.kind = "exact" -> d
      [] t.kind = "truncate" -> SubSeq(d, 1, t.at)
      [] t.kind = "append" -> d \o t.bytes
      [] t.kind = "setbyte" -> IF t.at <= Len(d) THEN [d EXCEPT ![t.at] = t.bytes[1]] ELSE d
      [] t.kind = "foreign" -> t.bytes

(***************************************************************************)
(* XyzInternalReader::new.  The reader is opened once the writer is gone:  *)
(* dropping a writer whose finish() was called changes nothing, so this    *)
(* covers reading the sink that finish() returned.                         *)
(***************************************************************************)
\* mutant: only the first byte of the magic is compared
BadMagicFirstByte(buff) == buff[1] # XYZ_MAGIC[1]

\* buff != XYZ_MAGIC
BadMagic(buff) == buff # XYZ_MAGIC

ReaderNew(r, ord, toEnd) ==
    LET m == ReadExact(r, Len(XYZ_MAGIC), toEnd)
        t == ReadExact(m.r, 1, toEnd)
        c == ReadExact(t.r, U64_BYTES, toEnd)
        out(res, at, f, n) == [res |-> res, r |-> at, format |-> f, n_records |-> n]
    IN  IF ~m.ok THEN out("IoError", m.r, "Xyz", U64Zero)
        ELSE IF BadMagic(m.bytes) THEN out("InvalidData", m.r, "Xyz", U64Zero)
        ELSE IF ~t.ok THEN out("IoError", t.r, "Xyz", U64Zero)
        ELSE IF FormatTryFrom(t.bytes[1]) = "Err" THEN out("Panic", t.r, "Xyz", U64Zero)
        ELSE IF ~c.ok THEN out("IoError", c.r, FormatTryFrom(t.bytes[1]), U64Zero)
        ELSE out("Ok", c.r, FormatTryFrom(t.bytes[1]), FromNeBytes(c.bytes, ord))

new(t, toEnd) ==
    /\ rstate = "absent"
    /\ wstate = "dropped"
    /\ t \in Tampers(sink.data)
    /\ LET o == ReaderNew([data |-> Tampered(sink.data, t), pos |-> 0], order, toEnd)
       IN  /\ src' = o.r
           /\ rres' = o.res
           /\ rstate' = IF o.res = "Ok" THEN "open"
                        ELSE IF o.res = "Panic" THEN "panicked" ELSE "failed"
           /\ r_format' = o.format
           /\ n_records' = o.n_records
    /\ tamper' = t
    /\ records_read' = U64Zero
    /\ r_start' = FALSE
    /\ rlog' = <<>>
    /\ UNCHANGED <<order, wvars>>

(***************************************************************************)
(* XyzInternalReader::next                                                 *)
(***************************************************************************)
\* mutant: off by one, > for >=
AtEndStrict(read, declared) == U64Ge(read, declared) /\ read # declared

\* self.records_read >= self.n_records
AtEnd(read, declared) == U64Ge(read, declared)

\* mutant: the consumed count advances before the record is read
ReadAfterAlways(read, res) == U64Inc(read)

\* records_read after a call that returned res
ReadAfter(read, res) == IF res = "Ok" THEN U64Inc(read) ELSE read

Entry(res, rec) == [res |-> res, rec |-> rec]

next(toEnd, dbg) ==
    /\ rstate = "open"
    /\ Len(rlog) < nCalls + ExtraNexts
    /\ IF AtEnd(records_read, n_records)
       THEN LET res == IF r_start /\ dbg /\ AsU32IsZero(records_read)
                       THEN "Panic" ELSE "None"
            IN  /\ rres' = res
                /\ rlog' = Append(rlog, Entry(res, None))
                /\ rstate' = IF res = "Panic" THEN "panicked" ELSE "open"
                /\ UNCHANGED <<src, records_read, r_start>>
       ELSE LET o == RecordRead(src, r_format, order, toEnd)
            IN  /\ r_start' = (r_start \/ records_read = U64Zero)
                /\ src' = o.r
                /\ records_read' = ReadAfter(records_read, o.res)
                /\ rres' = IF o.res = "Ok" THEN "Some" ELSE o.res
                /\ rlog' = Append(rlog, Entry(IF o.res = "Ok" THEN "Some" ELSE o.res,
                                              o.rec))
                /\ UNCHANGED rstate
    /\ UNCHANGED <<r_format, n_records, tamper>>
    /\ UNCHANGED <<order, wvars>>

ReaderNext ==
    \/ \E t \in Tampers(sink.data), toEnd \in BOOLEAN : new(t, toEnd)
    \/ \E toEnd \in BOOLEAN, dbg \in BOOLEAN : next(toEnd, dbg)

Next == WriterNext \/ ReaderNext

Spec == Init /\ [][Next]_vars

(***************************************************************************)
(* The codec on its own, as test_xyz_record uses it: one record is         *)
(* written into an empty Vec with XyzRecord::write and read back from it   *)
(* with XyzRecord::read; a Format is turned into its byte and back; any    *)
(* byte is offered to Format::try_from.  call.op tells which of these has  *)
(* been done, call.rec is the record, sink the Vec, src the slice read,    *)
(* rres the result of the read or of the conversion.                       *)
(***************************************************************************)
CodecRecords ==
    { XyzRecord(x, y, z, m) :
        x \in {F1, F2, F3}, y \in {F1, F2, F3}, z \in {F1, F2, F3},
        m \in {None, Some(Meta(4, 5, 6)), Some(Meta(0, 255, 1))} }

CodecInit ==
    /\ order \in {"little", "big"}
    /\ format \in Formats
    /\ \E rec \in CodecRecords : call = [NoCall EXCEPT !.op = "test", !.rec = rec]
    /\ inner = "Some"
    /\ records_written = U64Zero
    /\ start = FALSE
    /\ sink = [data |-> <<>>, pos |-> 0]
    /\ wstate = "live"
    /\ wres = "Ok"
    /\ nCalls = 0
    /\ okRecords = <<>>
    /\ hdrCalls = {}
    /\ finishCalled = FALSE
    /\ finishRes = "none"
    /\ finalizes = 0
    /\ patched = FALSE
    /\ faults = 0
    /\ rstate = "absent"
    /\ src = [data |-> <<>>, pos |-> 0]
    /\ r_format = "Xyz"
    /\ n_records = U64Zero
    /\ records_read = U64Zero
    /\ r_start = FALSE
    /\ rres = "none"
    /\ rlog = <<>>
    /\ tamper = [kind |-> "none", at |-> 0, bytes |-> <<>>]

codecFrame == <<order, format, inner, records_written, start, wstate, nCalls, okRecords,
                hdrCalls, finishCalled, finishRes, finalizes, patched, faults,
                rstate, r_format, n_records, records_read, r_start, tamper>>

\* record.write(&mut buff, format)
record_write ==
    /\ call.op = "test"
    /\ LET o == RecordWrite(call.rec, sink, format, order, 0)
       IN  /\ sink' = o.w
           /\ wres' = o.res
    /\ call' = [call EXCEPT !.op = "XyzRecord::write"]
    /\ UNCHANGED <<src, rres, rlog, codecFrame>>

\* XyzRecord::read(&mut buff.as_slice(), format)
record_read(toEnd) ==
    /\ call.op = "XyzRecord::write"
    /\ LET o == RecordRead([data |-> sink.data, pos |-> 0], format, order, toEnd)
       IN  /\ src' = o.r
           /\ rres' = o.res
           /\ rlog' = <<Entry(o.res, o.rec)>>
    /\ call' = [call EXCEPT !.op = "XyzRecord::read"]
    /\ UNCHANGED <<sink, wres, codecFrame>>

\* u8::from(format)
format_into ==
    /\ call.op = "test"
    /\ sink' = [data |-> <<FormatToU8(format)>>, pos |-> 1]
    /\ call' = [call EXCEPT !.op = "u8::from"]
    /\ UNCHANGED <<wres, src, rres, rlog, codecFrame>>

\* Format::try_from(b): of the byte u8::from produced, or of any byte
format_try_from(b) ==
    /\ \/ /\ call.op = "u8::from"
          /\ b = sink.data[1]
          /\ call' = [call EXCEPT !.op = "Format::try_from(u8::from)"]
       \/ /\ call.op = "test"
          /\ call' = [call EXCEPT !.op = "Format::try_from"]
    /\ src' = [data |-> <<b>>, pos |-> 1]
    /\ rres' = FormatTryFrom(b)
    /\ UNCHANGED <<sink, wres, rlog, codecFrame>>

CodecNext ==
    \/ record_write
    \/ \E toEnd \in BOOLEAN : record_read(toEnd)
    \/ format_into
    \/ \E b \in 0..255 : format_try_from(b)

SpecCodec == CodecInit /\ [][CodecNext]_vars

(***************************************************************************)
(* Properties.                                                             *)
(***************************************************************************)
\* magic + tag + count
HeaderLen == Len(XYZ_MAGIC) + 1 + U64_BYTES

\* bytes of one record in the stream
RecordLen(fmt) == 3 * U64_BYTES + (IF fmt = "XyzMeta" THEN META_BYTES ELSE 0)

\* the u64 held by the eight bytes at offset 5 of d
CountField(d) == FromNeBytes(SubSeq(d, 6, 13), order)

\* every record accepted so far carries metadata exactly when the tag asks for it
AllValid == \A i \in 1..Len(okRecords) :
                (okRecords[i].meta # None) <=> (format = "XyzMeta")

\* a reader was opened on exactly the bytes of a sink to which N >= 1 valid
\* records were written, every write_record and then finish() returning Ok
RoundTripCase ==
    /\ rstate # "absent"
    /\ tamper.kind = "exact"
    /\ nCalls >= 1
    /\ Len(okRecords) = nCalls
    /\ AllValid
    /\ finishRes = "Ok"

\* C1: after N >= 1 valid records were written, each write_record and finish()
\* succeeding, a reader on the resulting bytes opens, its first N next() calls
\* return the N records in the order written and every later next() returns
\* end-of-stream.
C1_RoundTrip ==
    RoundTripCase =>
        /\ rstate = "open"
        /\ r_format = format
        /\ \A i \in 1..Len(rlog) :
              rlog[i] = IF i <= nCalls THEN Entry("Some", okRecords[i])
                        ELSE Entry("None", None)

C1_Witness ==
    /\ RoundTripCase
    /\ nCalls >= 2
    /\ okRecords[1] # okRecords[2]
    /\ Len(rlog) = nCalls + 1
    /\ rlog[nCalls + 1].res = "None"

\* C2: once finish() has returned Ok, the count field at offset 5 of the sink
\* holds the number of write_record calls that returned Ok, whatever calls
\* failed before, and is not the all-ones placeholder.
C2_CountField ==
    finishRes = "Ok" =>
        /\ Len(sink.data) >= HeaderLen
        /\ CountField(sink.data) = U64OfNat(Len(okRecords))
        /\ CountField(sink.data) # U64_MAX

C2_Witness ==
    /\ finishRes = "Ok"
    /\ call.op = "finish"
    /\ Len(okRecords) = 1
    /\ nCalls = 2
    /\ hdrCalls = {1, 2}

\* C3: a writer that wrote no record and whose finish() returned Ok leaves
\* bytes on which a reader opens and whose first next() returns end-of-stream.
C3_EmptyRoundTrip ==
    (rstate # "absent" /\ tamper.kind = "exact" /\ nCalls = 0 /\ finishRes = "Ok") =>
        /\ rstate = "open"
        /\ Len(rlog) >= 1 => rlog[1].res = "None"

\* the writer was dropped while it still held its sink, after it had
\* accepted k >= 1 records, and the drop completed without a panic
DropCase ==
    /\ call.op = "drop"
    /\ call.pre.inner = "Some"
    /\ wres = "Ok"
    /\ Len(okRecords) >= 1

\* C4: when a writer that accepted k >= 1 records is dropped without finish()
\* and the drop completes, the sink is what finish() would have left: the
\* count field at offset 5 holds k, not the placeholder, and every other byte
\* and the length are as before the drop.
C4_DropFinalizes ==
    DropCase =>
        /\ records_written = U64OfNat(Len(okRecords))
        /\ CountField(sink.data) = records_written
        /\ CountField(sink.data) # U64_MAX
        /\ Len(sink.data) = Len(call.pre.sink.data)
        /\ \A i \in 1..Len(sink.data) :
              (i <= 5 \/ i > 13) => sink.data[i] = call.pre.sink.data[i]
        /\ patched /\ finalizes = 1

C4_Witness ==
    /\ DropCase
    /\ ~finishCalled
    /\ Len(okRecords) = 2
    /\ CountField(call.pre.sink.data) = U64_MAX
    /\ CountField(sink.data) = U64OfNat(2)

\* the last call was a write_record on a writer that held its sink, and no
\* sink operation failed in it
WriteCase ==
    /\ call.op = "write_record"
    /\ call.pre.inner = "Some"
    /\ call.fault = 0

\* the bytes the last call added behind what the sink held, header excluded
AddedRecordBytes ==
    LET hl == IF call.pre.records_written = U64Zero THEN HeaderLen ELSE 0
    IN  SubSeq(sink.data, Len(call.pre.sink.data) + hl + 1, Len(sink.data))

\* C5: write_record of a record without metadata under the with-metadata tag
\* returns InvalidInput and leaves the running count as it was; under the bare
\* tag write_record returns Ok whether or not the record carries metadata, and
\* adds exactly the 24 coordinate bytes of the record to the stream.
C5_MetaMismatch ==
    WriteCase =>
        /\ (format = "XyzMeta" /\ call.rec.meta = None) =>
              /\ wres = "InvalidInput"
              /\ records_written = call.pre.records_written
        /\ format = "Xyz" =>
              /\ wres = "Ok"
              /\ records_written = U64Inc(call.pre.records_written)
              /\ Len(AddedRecordBytes) = 24
              /\ AddedRecordBytes = ToNeBytes(call.rec.x, order)
                                    \o ToNeBytes(call.rec.y, order)
                                    \o ToNeBytes(call.rec.z, order)

C5_Witness ==
    /\ WriteCase
    /\ format = "XyzMeta"
    /\ call.rec.meta = None
    /\ wres = "InvalidInput"
    /\ Len(okRecords) = 1
    /\ nCalls = 2

\* offsets of the sink at which the four magic bytes stand
MagicOffsets(d) ==
    {p \in 0..(Len(d) - Len(XYZ_MAGIC)) : SubSeq(d, p + 1, p + Len(XYZ_MAGIC)) = XYZ_MAGIC}

\* C6: over a sink that never fails, only the first write_record call emits
\* the header, also when an earlier call failed, so that the magic stands in
\* the sink once, at offset 0.
C6_HeaderOnce ==
    faults = 0 =>
        /\ hdrCalls \subseteq {1}
        /\ MagicOffsets(sink.data) \subseteq {0}

\* C7: once finish() has been called, every later finish() and every later
\* write_record() returns the error "writer has already been finished",
\* leaves the running count as it was and writes nothing to the sink.
C7_OneShot ==
    [][ ( /\ finishCalled
          /\ call'.op \in {"write_record", "finish"}
          /\ (call' # call \/ nCalls' # nCalls \/ wres' # wres) )
        => ( /\ wres' = "Other"
             /\ records_written' = records_written
             /\ sink' = sink
             /\ inner' = "None" /\ inner = "None" ) ]_vars

C7_Witness ==
    /\ finishCalled
    /\ finishRes = "Ok"
    /\ call.op = "write_record"
    /\ call.pre.inner = "None"
    /\ wres = "Other"
    /\ Len(okRecords) = 1

\* complete records that stand behind the header in the reader's source
CompleteRecords == (Len(src.data) - HeaderLen) \div RecordLen(r_format)

Min(a, b) == IF a < b THEN a ELSE b

\* a reader is open on a stream of valid records that was cut short behind
\* its header, so that it declares more records than it holds
TruncatedCase ==
    /\ rstate = "open"
    /\ tamper.kind = "truncate"
    /\ AllValid

\* C8: on a stream that declares more records than it holds complete, next()
\* returns each complete record in order, and the call that crosses the cut,
\* like every call after it, returns an I/O error and no record; the consumed
\* count never passes the number of complete records.
C8_Truncated ==
    TruncatedCase =>
        /\ CompleteRecords < Len(okRecords)
        /\ n_records = U64OfNat(Len(okRecords))
        /\ \A i \in 1..Len(rlog) :
              rlog[i] = IF i <= CompleteRecords THEN Entry("Some", okRecords[i])
                        ELSE Entry("IoError", None)
        /\ records_read = U64OfNat(Min(Len(rlog), CompleteRecords))

C8_Witness ==
    /\ TruncatedCase
    /\ CompleteRecords = 1
    /\ (Len(src.data) - HeaderLen) % RecordLen(r_format) # 0
    /\ Len(rlog) = 3
    /\ rlog[1].res = "Some"
    /\ rlog[2].res = "IoError"

\* records the reader has returned
Yielded(log) == Cardinality({i \in 1..Len(log) : log[i].res = "Some"})

\* C9: a next() call made when the consumed count has reached the declared
\* count returns end-of-stream, reads no byte of the source and leaves the
\* consumed count as it was; and the records returned never outnumber the
\* declared count.
C9_EndOfStream ==
    [][ /\ ( /\ rstate = "open"
             /\ U64Ge(records_read, n_records)
             /\ rlog' # rlog )
           => ( /\ rres' = "None"
                /\ src' = src
                /\ records_read' = records_read )
        /\ U64Ge(n_records', U64OfNat(Yielded(rlog'))) ]_vars

C9_Witness ==
    /\ rstate = "open"
    /\ tamper.kind = "append"
    /\ Len(okRecords) = 1
    /\ Len(src.data) - src.pos >= RecordLen(r_format)
    /\ Len(rlog) = 3
    /\ rlog[2].res = "None"
    /\ rlog[3].res = "None"

\* C10: opening a reader on a stream of at least four bytes whose first four
\* bytes are not the magic returns InvalidData whatever follows: no reader
\* exists, and only those four bytes were read.
C10_BadMagic ==
    ( /\ rstate # "absent"
      /\ Len(src.data) >= Len(XYZ_MAGIC)
      /\ SubSeq(src.data, 1, Len(XYZ_MAGIC)) # XYZ_MAGIC )
    => ( /\ rres = "InvalidData"
         /\ rstate = "failed"
         /\ src.pos = Len(XYZ_MAGIC)
         /\ rlog = <<>> )

C10_Witness ==
    /\ rstate = "failed"
    /\ rres = "InvalidData"
    /\ tamper.kind = "setbyte"
    /\ tamper.at = 2
    /\ Len(src.data) > HeaderLen

\* C11: opening a reader on a stream with the right magic whose tag byte is
\* neither 1 nor 2 returns an invalid-data error to the caller: new() does
\* not panic and no reader with some default format exists.
C11_UnknownTag ==
    ( /\ rstate # "absent"
      /\ Len(src.data) >= Len(XYZ_MAGIC) + 1
      /\ SubSeq(src.data, 1, Len(XYZ_MAGIC)) = XYZ_MAGIC
      /\ src.data[Len(XYZ_MAGIC) + 1] \notin {1, 2} )
    => ( /\ rstate = "failed"
         /\ rres = "InvalidData" )

\* C13: finish() on a writer on which write_record was never called, over a
\* sink that does not fail, writes no count field: the sink's contents and
\* length are as they were.
C13_EmptyFinishNoop ==
    ( /\ call.op = "finish"
      /\ call.pre.inner = "Some"
      /\ call.fault = 0
      /\ nCalls = 0 )
    => ( /\ wres = "Ok"
         /\ sink.data = call.pre.sink.data )

\* C14: while the writer holds a sink that has never failed, the sink is
\* empty when the running count is 0 and otherwise holds one 13-byte header
\* and running-count whole records, whatever write_record calls were rejected.
C14_SinkLayout ==
    (inner = "Some" /\ faults = 0) =>
        /\ records_written = U64OfNat(Len(okRecords))
        /\ Len(sink.data) = IF Len(okRecords) = 0 THEN 0
                            ELSE 13 + Len(okRecords) * (IF format = "Xyz" THEN 24 ELSE 27)
        /\ MagicOffsets(sink.data) \subseteq {0}

\* the last call was a finish() on a writer that held its sink and had
\* accepted k >= 1 records, and neither the seek nor the write failed
FinishCase ==
    /\ call.op = "finish"
    /\ call.pre.inner = "Some"
    /\ call.fault = 0
    /\ Len(okRecords) >= 1

\* C15: finish() on a writer that accepted k >= 1 records returns Ok, puts k
\* into the eight bytes at offsets 5..12, leaves every other byte and the
\* length of the sink as they were, and the writer no longer holds the sink.
C15_FinishFrame ==
    FinishCase =>
        /\ wres = "Ok"
        /\ CountField(sink.data) = U64OfNat(Len(okRecords))
        /\ Len(sink.data) = Len(call.pre.sink.data)
        /\ \A i \in 1..Len(sink.data) :
              (i <= 5 \/ i > 13) => sink.data[i] = call.pre.sink.data[i]
        /\ inner = "None"

C15_Witness ==
    /\ FinishCase
    /\ Len(okRecords) = 2
    /\ CountField(call.pre.sink.data) = U64_MAX
    /\ CountField(sink.data) = U64OfNat(2)
    /\ inner = "None"

\* C17: when the seek or the count write fails in the finalize that Drop
\* runs, the drop panics; it does not complete as if the count were patched.
C17_DropFailurePanics ==
    ( /\ call.op = "drop"
      /\ call.pre.inner = "Some"
      /\ call.fault # 0 )
    => ( /\ wres = "Panic"
         /\ ~patched )

C17_Witness ==
    /\ call.op = "drop"
    /\ call.pre.inner = "Some"
    /\ call.fault = 2
    /\ Len(okRecords) = 2
    /\ wres = "Panic"
    /\ CountField(sink.data) = U64_MAX

\* C18: the finalize sequence is started at most once on a writer: dropping
\* a writer whose finish() has been called starts none, writes nothing to
\* the sink and, when that finish() returned (Ok or Err), does not panic.
C18_FinalizeOnce ==
    [][ /\ ( /\ finishCalled
             /\ wstate # "dropped"
             /\ wstate' = "dropped" )
          => ( /\ finalizes' = finalizes
               /\ sink' = sink
               /\ wstate = "live" => wres' = "Ok" )
        /\ finalizes' <= 1 ]_vars

C18_Witness ==
    /\ call.op = "drop"
    /\ finishCalled
    /\ finishRes = "IoError"
    /\ Len(okRecords) = 1
    /\ wres = "Ok"
    /\ finalizes = 1

\* C19: the statistics of finish() and of the end-of-stream next() never
\* divide by zero: no finish(), no finalize run by Drop on a sink that does
\* not fail, and no next() panics.
C19_NoDivByZero ==
    /\ finishRes # "Panic"
    /\ ~(call.op = "drop" /\ call.pre.inner = "Some" /\ call.fault = 0 /\ wres = "Panic")
    /\ ~(rstate = "panicked" /\ rlog # <<>>)

\* the record under test carries metadata exactly when the tag asks for it
CodecValid == (call.rec.meta # None) <=> (format = "XyzMeta")

\* C12: for either tag, XyzRecord::write of a record whose metadata presence
\* matches the tag returns Ok and produces 24 bytes (bare) or 27 bytes (with
\* metadata), and XyzRecord::read of those bytes under the same tag returns a
\* record equal to the original in every field and consumes all of them.
C12_RecordRoundTrip ==
    (call.op \in {"XyzRecord::write", "XyzRecord::read"} /\ CodecValid) =>
        /\ wres = "Ok"
        /\ Len(sink.data) = IF format = "Xyz" THEN 24 ELSE 27
        /\ call.op = "XyzRecord::read" =>
              /\ rlog = <<Entry("Ok", call.rec)>>
              /\ src.pos = Len(sink.data)
              /\ src.data = sink.data

C12_Witness ==
    /\ call.op = "XyzRecord::read"
    /\ format = "XyzMeta"
    /\ order = "big"
    /\ call.rec = XyzRecord(F1, F2, F3, Some(Meta(4, 5, 6)))
    /\ rres = "Ok"
    /\ src.pos = 27

\* C16: u8::from maps the bare tag to 1 and the with-metadata tag to 2;
\* Format::try_from of that byte returns the tag it came from; and
\* Format::try_from of any byte other than 1 and 2 returns an error, never
\* a format.
C16_FormatByte ==
    /\ call.op \in {"u8::from", "Format::try_from(u8::from)"} =>
          sink.data = <<IF format = "Xyz" THEN 1 ELSE 2>>
    /\ call.op = "Format::try_from(u8::from)" => rres = format
    /\ call.op = "Format::try_from" =>
          rres = (CASE src.data[1] = 1 -> "Xyz"
                    [] src.data[1] = 2 -> "XyzMeta"
                    [] OTHER -> "Err")

C16_Witness ==
    /\ call.op = "Format::try_from"
    /\ src.data = <<255>>
    /\ rres = "Err"

====
